---- MODULE Spec2Model ----
(***************************************************************************)
(* The pre-commit shim of CliPy-Hooks: the two implementations of Command  *)
(* (clipy_hooks/cli.py and pre_commit_pycli/cli.py), StaticAnalyzerCmd and *)
(* FormatterCmd.                                                           *)
(*                                                                         *)
(* A Python str or bytes value is a sequence of symbols.  A symbol is one  *)
(* character ("1", ".", "a", "\n") or a literal of the program or of the   *)
(* command line that no operation of the program ever cuts in two          *)
(* ("--version", "f1", "Problem with ").                                   *)
(***************************************************************************)
EXTENDS Integers, Sequences, FiniteSets, TLC

VARIABLES
    impl,          \* which package the run uses: "clipy_hooks" | "pre_commit_pycli"
    argv,          \* the raw argument list handed to Command(...) (sys.argv)
    command,       \* self.command
    toolInDir,     \* what <install dir>/<command> is: "file" | "dir" | "none"
    onPath,        \* whether shutil.which(command) finds the command
    args,          \* self.args
    paths,         \* self.paths (clipy_hooks) / self.files (pre_commit_pycli)
    install_path,  \* self.install_path
    stdout,        \* self.stdout
    stderr,        \* self.stderr
    return_code,   \* self.return_code (clipy_hooks) / self.returncode (pre_commit_pycli)
    pc,            \* "start" | "ready" | "exited" (SystemExit) | "crashed" (uncaught exception)
    exit_code,     \* the process's exit code once pc is "exited" or "crashed"
    errstream,     \* everything written to sys.stderr
    spawns,        \* every subprocess started so far: <<[prog, args]>>
    last,          \* what the last call did: the operation, its inputs and its result
    runs,          \* how many times run_command has been called
    edit_in_place, \* FormatterCmd: self.edit_in_place
    fileContent,   \* FormatterCmd: the bytes of each file on disk
    compared       \* FormatterCmd: the calls of compare_to_formatted that returned

vars == <<impl, argv, command, toolInDir, onPath, args, paths, install_path, stdout,
          stderr, return_code, pc, exit_code, errstream, spawns, last, runs,
          edit_in_place, fileContent, compared>>

(***************************************************************************)
(* Bounds of the model.                                                    *)
(***************************************************************************)
\* arguments after argv[0] in the argument-parsing specification
MaxArgs == 3
\* arguments after argv[0] in the life-cycle specification
MaxRunArgs == 2
\* calls of run_command on one object
MaxRuns == 2
\* characters of a version string handed to assert_version
MaxVerLen == 3
\* bytes of a file and of a formatter's output
MaxBytes == 2

(***************************************************************************)
(* Strings.                                                                *)
(***************************************************************************)
LF == "\n"

RECURSIVE SeqsUpTo(_, _)
SeqsUpTo(S, n) ==
    IF n = 0 THEN {<<>>}
    ELSE LET shorter == SeqsUpTo(S, n - 1)
         IN  shorter \cup {Append(s, x) : s \in {t \in shorter : Len(t) = n - 1}, x \in S}

RECURSIVE Flatten(_)
Flatten(ss) == IF ss = <<>> THEN <<>> ELSE Head(ss) \o Flatten(Tail(ss))

Range(s) == {s[i] : i \in DOMAIN s}

\* Python: sub in s
Contains(s, sub) ==
    \E i \in 0..(Len(s) - Len(sub)) : SubSeq(s, i + 1, i + Len(sub)) = sub

\* Python: s[:n]
Prefix(s, n) == SubSeq(s, 1, IF n < Len(s) THEN n ELSE Len(s))

\* Python: s.replace(x, "") for a one-symbol x
RECURSIVE Without(_, _)
Without(s, x) ==
    IF s = <<>> THEN <<>>
    ELSE IF Head(s) = x THEN Without(Tail(s), x)
    ELSE <<Head(s)>> \o Without(Tail(s), x)

\* Python: list.index(x), 1-based; the list holds x
IndexOf(s, x) == CHOOSE i \in DOMAIN s : s[i] = x /\ \A j \in 1..(i - 1) : s[j] # x

\* Python: list.remove(x); the list holds x
RemoveFirst(s, x) ==
    LET i == IndexOf(s, x) IN SubSeq(s, 1, i - 1) \o SubSeq(s, i + 1, Len(s))

(***************************************************************************)
(* The command line.                                                       *)
(***************************************************************************)
FlagNames == {"--install-dir", "--install-path", "--version", "--a-flag", "--an-arg"}

\* Python: arg.startswith("-")
StartsWithDash(t) == t # <<>> /\ t[1] \in FlagNames

\* Python: arg.startswith(flag), for a flag of FlagNames
StartsWith(t, flag) == t # <<>> /\ t[1] = flag

HookName == <<"hook">>
ToolName == <<"tool">>
ScriptName == <<"tool", ".py">>
File1 == <<"f1">>
File2 == <<"f2">>
Dir1 == <<"d">>
Version10 == <<"1", ".", "0">>

\* the install option each package recognises
InstallFlag(i) == IF i = "clipy_hooks" THEN "--install-dir" ELSE "--install-path"

Tokens(i) ==
    { <<"--a-flag">>, <<"--an-arg", "=", "x">>,
      <<InstallFlag(i)>>, <<InstallFlag(i), "=">> \o Dir1,
      <<"--version">>, <<"--version", "=">> \o Version10,
      File1, Dir1, Version10 }

\* the arguments of the life-cycle specification
RunTokens(i) == Tokens(i) \ {<<"--an-arg", "=", "x">>, Version10}

ArgLists(tokens, n) == {<<HookName>> \o a : a \in SeqsUpTo(tokens, n)}

(***************************************************************************)
(* The file system.                                                        *)
(***************************************************************************)
Cwd == "/cwd/"
Sep == "/"

\* Path.resolve(): a relative path is taken from the working directory
Resolve(p) == IF p # <<>> /\ p[1] = Cwd THEN p ELSE <<Cwd>> \o p

\* Path.joinpath(name)
JoinPath(dir, name) == IF dir = <<>> THEN name ELSE dir \o <<Sep>> \o name

\* what a path names: "file" | "dir" | "none"
KindOf(p, cmd, inDir) ==
    LET r == Resolve(p)
    IN  IF r \in {<<Cwd>>, Resolve(Dir1)} THEN "dir"
        ELSE IF r \in {Resolve(File1), Resolve(File2)} THEN "file"
        ELSE IF r = Resolve(JoinPath(Dir1, cmd)) THEN inDir
        ELSE "none"

(***************************************************************************)
(* Diagnostics and version strings.                                        *)
(***************************************************************************)
\* raise_error: the text written to the error stream
ErrorText(cmd, problem, details) ==
    <<"Problem with ">> \o cmd \o <<": ">> \o problem \o <<LF>> \o details \o <<LF>>

NotFoundProblem(cmd) == cmd \o <<" not found">>

\* clipy_hooks check_installed: the details of its diagnostic
ClipyNotFoundDetails(cmd, ipath) ==
    <<"Make sure ">> \o cmd \o <<" is installed ">>
    \o (IF ipath # <<>> THEN <<"at '">> \o ipath \o <<"'">> ELSE <<"and on your PATH">>)
    \o <<".", LF>>

\* pre_commit_pycli check_installed: the details of its diagnostic
PycliNotFoundDetails(cmd, ipath) ==
    <<"Make sure ">> \o cmd \o <<" is installed ">>
    \o (IF ipath # <<>> THEN <<" at '">> \o ipath \o <<"'">> ELSE <<" and on your PATH">>)
    \o <<".", LF, "For more info: ">>

ClipyVersionProblem(cmd) == <<"Version of ">> \o cmd \o <<" is wrong.">>

ClipyVersionDetails(cmd, actual_ver, expected_ver) ==
    <<"Expected version: ">> \o expected_ver \o <<" Found version: ">> \o actual_ver
    \o <<". ", "Edit your pre-commit config or use a different version ", "of ">>
    \o cmd \o <<".">>

PycliVersionProblem(cmd) == <<"Version of ">> \o cmd \o <<" is wrong">>

PycliVersionDetails(cmd, actual_ver, expected_ver) ==
    <<"Expected version: ">> \o expected_ver \o <<" Found version: ">> \o actual_ver
    \o <<"Edit your pre-commit config or use a different version ", "of ">>
    \o cmd \o <<".">>

VersionFormatProblem == <<"getting version">>
VersionFormatDetails == <<"The version format for this command has changed.">>

\* a policy that looks for the expected version anywhere in the actual one
PycliVersionAcceptedAnywhere(actual_ver, expected_ver) ==
    Contains(actual_ver, expected_ver)

\* clipy_hooks _assert_version: the test that lets execution continue
ClipyVersionAccepted(actual_ver, expected_ver) == Contains(actual_ver, expected_ver)

\* pre_commit_pycli assert_version: the test that skips raise_error
PycliVersionAccepted(actual_ver, expected_ver) ==
    Contains(Prefix(actual_ver, Len(expected_ver)), expected_ver)

VersionAccepted(i, actual_ver, expected_ver) ==
    IF i = "clipy_hooks" THEN ClipyVersionAccepted(actual_ver, expected_ver)
    ELSE PycliVersionAccepted(actual_ver, expected_ver)

VersionMismatchText(i, cmd, actual_ver, expected_ver) ==
    IF i = "clipy_hooks"
    THEN ErrorText(cmd, ClipyVersionProblem(cmd),
                   ClipyVersionDetails(cmd, actual_ver, expected_ver))
    ELSE ErrorText(cmd, PycliVersionProblem(cmd),
                   PycliVersionDetails(cmd, actual_ver, expected_ver))

Digits == {"0", "1", "2", "3", "4", "5", "6", "7", "8", "9"}
Lower == {"a", "b", "c", "d", "e", "f", "g", "h", "i", "j", "k", "l", "m",
          "n", "o", "p", "q", "r", "s", "t", "u", "v", "w", "x", "y", "z"}
\* the class [\d+_\+\-a-z]
VersionTail == Digits \cup Lower \cup {"+", "_", "-"}

\* w is in (?:\d+\.)+
DotGroups(w) ==
    /\ w # <<>>
    /\ w[Len(w)] = "."
    /\ \A k \in DOMAIN w : w[k] \in Digits \cup {"."}
    /\ \A k \in DOMAIN w : w[k] = "." => (k > 1 /\ w[k - 1] \in Digits)

\* w is in (?:\d+\.)+[\d+_\+\-a-z]+
VersionShaped(w) ==
    \E k \in 1..(Len(w) - 1) :
        /\ DotGroups(SubSeq(w, 1, k))
        /\ \A m \in (k + 1)..Len(w) : w[m] \in VersionTail

\* re.search(regex, version_str): the leftmost match, as long as the greedy
\* quantifiers make it; <<>> when nothing matches (a match is never empty)
VersionSearch(text) ==
    LET spans == {ij \in (DOMAIN text) \X (DOMAIN text) :
                     ij[1] <= ij[2] /\ VersionShaped(SubSeq(text, ij[1], ij[2]))}
    IN  IF spans = {} THEN <<>>
        ELSE LET first == CHOOSE ij \in spans :
                              \A o \in spans :
                                  \/ ij[1] < o[1]
                                  \/ (ij[1] = o[1] /\ ij[2] >= o[2])
             IN  SubSeq(text, first[1], first[2])

\* what "<command> --version" may print
VersionOutputs ==
    { <<"CLI ", "1", ".", "0", ".", "0", LF>>,
      <<"2", ".", "1", ".", "0", LF>>,
      <<"no version here">> }

(***************************************************************************)
(* clipy_hooks: argparse.  The parser of _parse_args has the options       *)
(* --install-dir and --version (one value each) and the positional paths   *)
(* (nargs="*"); parse_known_args returns what it does not know.            *)
(***************************************************************************)
\* argparse: an argument that starts with a prefix character is an option ('O'),
\* any other a positional ('A')
IsOptionString(t) == StartsWithDash(t)

\* the options of the parser
IsShimOption(t) == IsOptionString(t) /\ t[1] \in {"--install-dir", "--version"}

\* "--opt=value": the option carries its value
HasExplicitArg(t) == Len(t) >= 2 /\ t[2] = "="
ExplicitArg(t) == SubSeq(t, 3, Len(t))

\* max_option_string_index; 0 when there is no option
MaxOptionIndex(ts) ==
    LET opts == {k \in DOMAIN ts : IsOptionString(ts[k])}
    IN  IF opts = {} THEN 0 ELSE CHOOSE k \in opts : \A m \in opts : m <= k

\* the next option at or after start (there is one)
NextOptionIndex(ts, start) ==
    CHOOSE k \in start..Len(ts) :
        IsOptionString(ts[k]) /\ \A m \in start..(k - 1) : ~IsOptionString(ts[m])

NoVersion == <<"None">>

ParserStart ==
    [positionals |-> TRUE, paths |-> <<>>, extras |-> <<>>, install_dir |-> <<>>,
     version |-> NoVersion, error |-> FALSE]

\* ArgumentParser._parse_known_args: the loop over the argument strings from start
RECURSIVE ParseFrom(_, _, _)
ParseFrom(ts, start, st) ==
    IF st.error THEN st
    ELSE IF start > MaxOptionIndex(ts)
    THEN \* consume_positionals(start_index), then extras.extend(the rest)
         IF st.positionals
         THEN [st EXCEPT !.paths = SubSeq(ts, start, Len(ts)), !.positionals = FALSE]
         ELSE [st EXCEPT !.extras = @ \o SubSeq(ts, start, Len(ts))]
    ELSE LET next == NextOptionIndex(ts, start)
         IN  IF start # next
             THEN \* the positionals before the next option: paths takes them all,
                  \* once; later ones are left over
                  IF st.positionals
                  THEN ParseFrom(ts, next,
                           [st EXCEPT !.paths = SubSeq(ts, start, next - 1),
                                      !.positionals = FALSE])
                  ELSE ParseFrom(ts, next,
                           [st EXCEPT !.extras = @ \o SubSeq(ts, start, next - 1)])
             ELSE \* consume_optional(start_index)
                  LET t == ts[start]
                      field == IF t[1] = "--version" THEN "version" ELSE "install_dir"
                  IN  IF ~IsShimOption(t)
                      THEN ParseFrom(ts, start + 1, [st EXCEPT !.extras = Append(@, t)])
                      ELSE IF HasExplicitArg(t)
                      THEN ParseFrom(ts, start + 1, [st EXCEPT ![field] = ExplicitArg(t)])
                      ELSE IF start < Len(ts) /\ ~IsOptionString(ts[start + 1])
                      THEN ParseFrom(ts, start + 2, [st EXCEPT ![field] = ts[start + 1]])
                      ELSE \* "expected one argument"
                           [st EXCEPT !.error = TRUE]

\* parser.parse_known_args(self.args)
ParseKnownArgs(ts) == ParseFrom(ts, 1, ParserStart)

\* type=Path: Path("") and Path(".") are Path()
PathOf(s) == IF s \in {<<>>, <<".">>} THEN <<>> ELSE s

UsageText == <<"usage: ", "error: expected one argument", LF>>

(***************************************************************************)
(* Starting the wrapped tool.                                              *)
(***************************************************************************)
\* whether the operating system can start prog: a bare name is looked up on
\* the search path, any other path must name a file
Startable(prog, cmd, inDir, found) ==
    IF prog = <<"python">> THEN TRUE
    ELSE IF prog = cmd THEN found
    ELSE KindOf(prog, cmd, inDir) = "file"

\* clipy_hooks _execute_with_arguments: the argument vector it assembles
ClipyProgram(ipath, cmd) ==
    IF ipath # <<>> THEN Resolve(JoinPath(ipath, cmd)) ELSE cmd

ClipyCommandLine(ipath, cmd, more) ==
    LET line == <<ClipyProgram(ipath, cmd)>> \o more
    IN  IF cmd[Len(cmd)] = ".py" THEN <<<<"python">>>> \o line ELSE line

\* pre_commit_pycli: [self.install_path + self.command, *args]
PycliProgram(ipath, cmd) == ipath \o cmd

PycliCommandLine(ipath, cmd, more) == <<PycliProgram(ipath, cmd)>> \o more

CommandLine(i, ipath, cmd, more) ==
    IF i = "clipy_hooks" THEN ClipyCommandLine(ipath, cmd, more)
    ELSE PycliCommandLine(ipath, cmd, more)

\* the interpreter, started on a script that is not there, exits 2; it takes a
\* relative script from the working directory, never from the search path
ScriptMissing(line, cmd, inDir, found) ==
    /\ line[1] = <<"python">>
    /\ KindOf(line[2], cmd, inDir) # "file"

TracebackText == <<"Traceback (most recent call last):", LF>>

\* what a started tool may do: its exit code and what it prints
ChildResults ==
    {[rc |-> c, out |-> p[1], err |-> p[2]] :
        c \in {0, 1, 2}, p \in {<<<<>>, <<>>>>, <<<<"o">>, <<"e">>>>}}

InterpreterFailure == [rc |-> 2, out |-> <<>>, err |-> <<"python: can't open file">>]

(***************************************************************************)
(* Command.__init__ and the parsing of the arguments.  An outcome is what  *)
(* one call leaves behind: the object's fields, how the call ended         *)
(* ("returned", "exited" by SystemExit, "crashed" by an exception nobody   *)
(* catches), the exit code, the text written to the error stream and the   *)
(* subprocesses started.                                                   *)
(***************************************************************************)
NewObject(av) ==
    [args |-> av, paths |-> <<>>, install_path |-> <<>>, stdout |-> <<>>,
     stderr |-> <<>>, return_code |-> 0, end |-> "returned", code |-> 0, text |-> <<>>,
     spawned |-> <<>>, checked |-> FALSE, actual |-> <<>>, expected |-> <<>>]

\* a raise_error that ends the process with exit code 2
RaiseErrorCode2(o, text) ==
    [o EXCEPT !.stderr = text, !.return_code = 1, !.end = "exited", !.code = 2,
              !.text = @ \o text]

\* raise_error(problem, details)
RaiseError(o, text) ==
    [o EXCEPT !.stderr = text, !.return_code = 1, !.end = "exited", !.code = 1,
              !.text = @ \o text]

\* an exception that nothing catches: the interpreter prints the traceback and exits 1
Uncaught(o) ==
    [o EXCEPT !.end = "crashed", !.code = 1, !.text = @ \o TracebackText]

\* clipy_hooks _assert_version: returns when the version is accepted
ClipyAssertVersion(o, cmd, actual_ver, expected_ver) ==
    LET seen == [o EXCEPT !.checked = TRUE, !.actual = actual_ver,
                          !.expected = expected_ver]
    IN  IF ClipyVersionAccepted(actual_ver, expected_ver) THEN seen
        ELSE RaiseError(seen, VersionMismatchText("clipy_hooks", cmd, actual_ver,
                                                  expected_ver))

\* pre_commit_pycli assert_version: raise_error, or else sys.exit(0)
PycliAssertVersion(o, cmd, actual_ver, expected_ver) ==
    LET seen == [o EXCEPT !.checked = TRUE, !.actual = actual_ver,
                          !.expected = expected_ver]
    IN  IF ~PycliVersionAccepted(actual_ver, expected_ver)
        THEN RaiseError(seen, VersionMismatchText("pre_commit_pycli", cmd, actual_ver,
                                                  expected_ver))
        ELSE [seen EXCEPT !.end = "exited", !.code = 0]

AssertVersion(i, o, cmd, actual_ver, expected_ver) ==
    IF i = "clipy_hooks" THEN ClipyAssertVersion(o, cmd, actual_ver, expected_ver)
    ELSE PycliAssertVersion(o, cmd, actual_ver, expected_ver)

\* get_version_str, then the version assertion.  env: the command, the file
\* system and what the tool prints for --version
VersionGuard(i, o, expected_ver, env) ==
    LET line == CommandLine(i, o.install_path, env.cmd, <<<<"--version">>>>)
        started == Startable(line[1], env.cmd, env.inDir, env.found)
        tried == [o EXCEPT !.spawned = Append(@, [line |-> line, started |-> started])]
        printed == IF ScriptMissing(line, env.cmd, env.inDir, env.found)
                   THEN InterpreterFailure.out ELSE env.probe
        found_ver == VersionSearch(printed)
    IN  IF ~started THEN Uncaught(tried)
        ELSE IF found_ver = <<>>
        THEN RaiseError(tried, ErrorText(env.cmd, VersionFormatProblem,
                                         VersionFormatDetails))
        ELSE AssertVersion(i, tried, env.cmd, found_ver, expected_ver)

\* clipy_hooks Command.__init__: _parse_args
ClipyParseArgs(av, env) ==
    LET rest == Tail(av)
        shim == ParseKnownArgs(rest)
        o == [NewObject(rest) EXCEPT !.args = shim.extras, !.paths = shim.paths,
                                     !.install_path = PathOf(shim.install_dir)]
    IN  IF shim.error
        THEN [NewObject(rest) EXCEPT !.end = "exited", !.code = 2, !.text = UsageText]
        ELSE IF shim.version = NoVersion THEN o
        ELSE VersionGuard("clipy_hooks", o, shim.version, env)

\* pre_commit_pycli get_added_files: the arguments that exist on disk, or else
\* what git lists as staged
ExistingArgs(av, env) ==
    SelectSeq(Tail(av), LAMBDA f : /\ KindOf(f, env.cmd, env.inDir) # "none"
                                   /\ f[Len(f)] # ".cfg")

GitResults == {[ok |-> TRUE, files |-> <<>>], [ok |-> TRUE, files |-> <<File1>>],
               [ok |-> FALSE, files |-> <<>>]}

GitProblem == <<"Problem determining which files are being committed using git.">>

\* pre_commit_pycli parse_args: the body of "for arg in args", for args[k]
PycliParseArg(all, k, o, env) ==
    LET arg == all[k]
        first == IndexOf(all, arg)
        removed ==
            IF arg \in Range(o.paths) /\ ~StartsWithDash(arg)
            THEN IF arg \in Range(o.args)
                 THEN [o EXCEPT !.args = RemoveFirst(@, arg)]
                 ELSE Uncaught(o)
            ELSE o
        expected_version ==
            IF arg = <<"--version">> /\ first # Len(all)
            THEN all[first + 1]
            ELSE Without(Without(Without(arg, " "), "="), "--version")
        versioned ==
            IF removed.end = "returned" /\ StartsWith(arg, "--version")
            THEN VersionGuard("pre_commit_pycli", removed, expected_version, env)
            ELSE removed
        given == all[first + 1]
    IN  IF versioned.end = "returned" /\ StartsWith(arg, "--install-path")
        THEN IF first = Len(all) THEN Uncaught(versioned)
             ELSE IF KindOf(given, env.cmd, env.inDir) = "none"
             THEN RaiseError(versioned,
                      ErrorText(env.cmd, <<"Install path argument is invalid.">>,
                                <<"The path '">> \o given
                                \o <<"' does not exist on the system.">>))
             ELSE [versioned EXCEPT !.install_path = Resolve(given)]
        ELSE versioned

RECURSIVE PycliParseFrom(_, _, _, _)
PycliParseFrom(all, k, o, env) ==
    IF o.end # "returned" \/ k > Len(all) THEN o
    ELSE PycliParseFrom(all, k + 1, PycliParseArg(all, k, o, env), env)

\* pre_commit_pycli Command.__init__: get_added_files, then parse_args(self.args)
PycliParseArgs(av, env) ==
    LET onDisk == ExistingArgs(av, env)
        o == [NewObject(Tail(av)) EXCEPT
                 !.paths = IF onDisk # <<>> THEN onDisk ELSE env.git.files]
    IN  IF onDisk = <<>> /\ ~env.git.ok
        THEN RaiseError(NewObject(av), ErrorText(env.cmd, GitProblem, <<"fatal">>))
        ELSE PycliParseFrom(av, 1, o, env)

ParseArgs(i, av, env) ==
    IF i = "clipy_hooks" THEN ClipyParseArgs(av, env) ELSE PycliParseArgs(av, env)

(***************************************************************************)
(* check_installed, run_command, exit_on_error.                            *)
(***************************************************************************)
\* clipy_hooks check_installed: path is not None
ClipyInstalled(o, env) ==
    IF o.install_path # <<>>
    THEN KindOf(JoinPath(o.install_path, env.cmd), env.cmd, env.inDir) = "file"
    ELSE env.found

\* pre_commit_pycli check_installed: path is not None
PycliInstalled(o, env) ==
    IF o.install_path = <<>>
    THEN env.found
    ELSE KindOf(JoinPath(o.install_path, env.cmd), env.cmd, env.inDir) # "none"

Installed(i, o, env) ==
    IF i = "clipy_hooks" THEN ClipyInstalled(o, env) ELSE PycliInstalled(o, env)

NotFoundText(i, cmd, ipath) ==
    ErrorText(cmd, NotFoundProblem(cmd),
              IF i = "clipy_hooks" THEN ClipyNotFoundDetails(cmd, ipath)
              ELSE PycliNotFoundDetails(cmd, ipath))

CheckInstalledOutcome(i, o, env) ==
    IF Installed(i, o, env) THEN o
    ELSE RaiseError(o, NotFoundText(i, env.cmd, o.install_path))

\* an exit_on_error that writes the stderr buffer before the stdout buffer
ExitOnErrorStderrFirst(o) ==
    IF o.return_code # 0
    THEN [o EXCEPT !.end = "exited", !.code = o.return_code,
                   !.text = @ \o o.stderr \o o.stdout]
    ELSE o

\* exit_on_error
ExitOnError(o) ==
    IF o.return_code # 0
    THEN [o EXCEPT !.end = "exited", !.code = o.return_code,
                   !.text = @ \o o.stdout \o o.stderr]
    ELSE o

\* StaticAnalyzerCmd.run_command; more: the arguments after the program,
\* child: what the tool does once started
RunCommandOutcome(i, o, more, child, env) ==
    LET installed == CheckInstalledOutcome(i, o, env)
        line == CommandLine(i, o.install_path, env.cmd, more)
        started == Startable(line[1], env.cmd, env.inDir, env.found)
        tried == [o EXCEPT !.spawned = Append(@, [line |-> line, started |-> started])]
        sp_child == IF ScriptMissing(line, env.cmd, env.inDir, env.found)
                    THEN InterpreterFailure ELSE child
    IN  IF installed.end # "returned" THEN installed
        ELSE IF ~started THEN Uncaught(tried)
        ELSE ExitOnError([tried EXCEPT !.stdout = @ \o sp_child.out,
                                       !.stderr = @ \o sp_child.err,
                                       !.return_code = sp_child.rc])

\* a run_command that returns whether the exit code is not 0
RunCommandResultNegated(i, o) ==
    IF i = "clipy_hooks" THEN (IF o.return_code # 0 THEN "True" ELSE "False")
    ELSE "None"

\* what run_command hands back when it returns
RunCommandResult(i, o) ==
    IF i = "clipy_hooks" THEN (IF o.return_code = 0 THEN "True" ELSE "False")
    ELSE "None"

\* the arguments run_command passes after the program: clipy_hooks takes
\* [*self.args, *self.paths]; pre_commit_pycli takes what its caller passes,
\* the options and the files, or one file before the options
RunArguments(i, o) ==
    IF i = "clipy_hooks" THEN {o.args \o o.paths}
    ELSE {o.args \o o.paths} \cup {<<f>> \o o.args : f \in Range(o.paths)}

(***************************************************************************)
(* The state machine.                                                      *)
(***************************************************************************)
Impls == {"clipy_hooks", "pre_commit_pycli"}
\* only clipy_hooks looks at the command's suffix
Commands(i) == IF i = "clipy_hooks" THEN {ToolName, ScriptName} ELSE {ToolName}

\* the object as the variables hold it, before a call
Self ==
    [args |-> args, paths |-> paths, install_path |-> install_path,
     stdout |-> stdout, stderr |-> stderr, return_code |-> return_code,
     end |-> "returned", code |-> 0, text |-> <<>>, spawned |-> <<>>,
     checked |-> FALSE, actual |-> <<>>, expected |-> <<>>]

Env(probe, git) ==
    [cmd |-> command, inDir |-> toolInDir, found |-> onPath, probe |-> probe,
     git |-> git]

NoProbe == <<>>
NoGit == [ok |-> TRUE, files |-> <<>>]

\* the variables after a call with outcome o
Becomes(o) ==
    /\ args' = o.args
    /\ paths' = o.paths
    /\ install_path' = o.install_path
    /\ stdout' = o.stdout
    /\ stderr' = o.stderr
    /\ return_code' = o.return_code
    /\ pc' = IF o.end = "returned" THEN "ready" ELSE o.end
    /\ exit_code' = IF o.end = "returned" THEN exit_code ELSE o.code
    /\ errstream' = errstream \o o.text
    /\ spawns' = spawns \o o.spawned

InitWith(lists) ==
    /\ impl \in Impls
    /\ argv \in lists[impl]
    /\ command \in Commands(impl)
    /\ toolInDir \in {"file", "dir", "none"}
    /\ onPath \in BOOLEAN
    /\ args = argv
    /\ paths = <<>>
    /\ install_path = <<>>
    /\ stdout = <<>>
    /\ stderr = <<>>
    /\ return_code = 0
    /\ pc = "start"
    /\ exit_code = 0
    /\ errstream = <<>>
    /\ spawns = <<>>
    /\ last = [op |-> "none"]
    /\ runs = 0
    /\ edit_in_place = FALSE
    /\ compared = <<>>

\* Command(command, args): the constructor, which parses the arguments
Construct ==
    /\ pc = "start"
    /\ \E probe \in VersionOutputs, git \in GitResults :
          LET o == ParseArgs(impl, argv, Env(probe, git))
          IN  /\ Becomes(o)
              /\ last' = [op |-> "__init__", checked |-> o.checked,
                          actual |-> o.actual, expected |-> o.expected,
                          written |-> o.text, probe |-> probe]
    /\ UNCHANGED <<impl, argv, command, toolInDir, onPath, runs, edit_in_place,
                   fileContent, compared>>

\* check_installed()
CheckInstalled ==
    /\ pc = "ready"
    /\ LET o == CheckInstalledOutcome(impl, Self, Env(NoProbe, NoGit))
       IN  /\ Becomes(o)
           /\ last' = [op |-> "check_installed", written |-> o.text]
    /\ UNCHANGED <<impl, argv, command, toolInDir, onPath, runs, edit_in_place,
                   fileContent, compared>>

\* run_command()
RunCommand ==
    /\ pc = "ready"
    /\ runs < MaxRuns
    /\ \E child \in ChildResults, more \in RunArguments(impl, Self) :
          LET o == RunCommandOutcome(impl, Self, more, child, Env(NoProbe, NoGit))
          IN  /\ Becomes(o)
              /\ last' = [op |-> "run_command", written |-> o.text,
                          stdout_before |-> stdout, stderr_before |-> stderr,
                          started |-> o.spawned # <<>> /\ o.spawned[1].started,
                          child |-> IF o.spawned # <<>>
                                       /\ ScriptMissing(o.spawned[1].line, command,
                                                        toolInDir, onPath)
                                    THEN InterpreterFailure ELSE child,
                          result |-> IF o.end = "returned"
                                     THEN RunCommandResult(impl, o) ELSE "no return"]
    /\ runs' = runs + 1
    /\ UNCHANGED <<impl, argv, command, toolInDir, onPath, edit_in_place,
                   fileContent, compared>>

RunLists == [i \in Impls |-> ArgLists(RunTokens(i), MaxRunArgs)]

\* the shim never reads a file's content outside FormatterCmd
Init == InitWith(RunLists) /\ fileContent = <<>>

Next == Construct \/ CheckInstalled \/ RunCommand

\* one run of the shim: construction, then check_installed and run_command
Spec == Init /\ [][Next]_vars

ParseLists == [i \in Impls |-> ArgLists(Tokens(i), MaxArgs)]

InitParse == InitWith(ParseLists) /\ fileContent = <<>>

NextParse == Construct

\* the constructor on longer argument lists
SpecParse == InitParse /\ [][NextParse]_vars

(***************************************************************************)
(* What the command line means, independently of either parser: the shim's *)
(* options, their values, and the tokens meant for the wrapped tool.       *)
(***************************************************************************)
IsShimFlag(i, t) == StartsWith(t, InstallFlag(i)) \/ StartsWith(t, "--version")

\* "--opt value": the token after a shim option written without "=" is its value
RECURSIVE IsShimValue(_, _, _)
IsShimValue(i, av, k) ==
    /\ k > 2
    /\ IsShimFlag(i, av[k - 1])
    /\ Len(av[k - 1]) = 1
    /\ ~IsShimValue(i, av, k - 1)

ShimPositions(i, av) ==
    {k \in 2..Len(av) : IsShimFlag(i, av[k]) \/ IsShimValue(i, av, k)}

\* the tokens at the positions from k on that are not in skip, in order
RECURSIVE Keeping(_, _, _)
Keeping(av, k, skip) ==
    IF k > Len(av) THEN <<>>
    ELSE (IF k \in skip THEN <<>> ELSE <<av[k]>>) \o Keeping(av, k + 1, skip)

ToolTokens(i, av) == Keeping(av, 2, ShimPositions(i, av))

BarePositionals(i, av) == SelectSeq(ToolTokens(i, av), LAMBDA t : ~StartsWithDash(t))

ToolOptions(i, av) == SelectSeq(ToolTokens(i, av), LAMBDA t : StartsWithDash(t))

Count(s, x) == Cardinality({k \in DOMAIN s : s[k] = x})

Parsed == pc = "ready" /\ last.op = "__init__"

(***************************************************************************)
(* Claims about the parsing of the arguments (SpecParse).                  *)
(***************************************************************************)
\* C1: after argument parsing, in both packages, neither the path list nor
\* self.args holds a shim-only token (the install option or its value,
\* --version or its value): each such token is left only as often as the
\* command line also gives it as a token for the tool.
C1_NoShimTokenLeft ==
    Parsed =>
        \A k \in ShimPositions(impl, argv) :
            Count(paths \o args, argv[k]) <= Count(ToolTokens(impl, argv), argv[k])

\* C7: when a --version constraint is given and the installed tool's version
\* satisfies it, the parsing of the arguments returns to its caller.
C7_MatchingVersionReturns ==
    (last.op = "__init__" /\ last.checked
     /\ VersionAccepted(impl, last.actual, last.expected))
        => pc = "ready"

\* C10: clipy_hooks splits the argument list: paths is exactly the bare
\* positional tokens, in order, and self.args the remaining tokens for the
\* tool, in order.
C10_SplitIsPartition ==
    (Parsed /\ impl = "clipy_hooks")
        => /\ paths = BarePositionals(impl, argv)
           /\ args = ToolOptions(impl, argv)

(***************************************************************************)
(* Claims about one run of the shim (Spec).                                *)
(***************************************************************************)
\* the last call was run_command and it started the tool
ToolRan == last.op = "run_command" /\ last.started

Ended == pc \in {"exited", "crashed"}

\* C2 as the specification states it: on a non-zero exit code of the tool
\* clipy_hooks' run_command does not return, writes the child's stdout and
\* then the child's stderr, and the process ends with the child's exit code.
C2_WritesChildOutput ==
    (impl = "clipy_hooks" /\ ToolRan /\ last.child.rc # 0)
        => /\ Ended
           /\ last.result = "no return"
           /\ exit_code = last.child.rc
           /\ last.written = last.child.out \o last.child.err

\* C2, amended: on a non-zero exit code of the tool clipy_hooks' run_command
\* does not return; it writes the object's stdout buffer (what earlier runs
\* left there, then the child's stdout) followed by its stderr buffer (what
\* earlier runs left there, then the child's stderr), which on the object's
\* first run is the child's stdout followed by its stderr; the process ends
\* with the child's exit code and starts nothing after that.
C2_WritesBuffers ==
    /\ (impl = "clipy_hooks" /\ ToolRan /\ last.child.rc # 0)
          => /\ Ended
             /\ last.result = "no return"
             /\ exit_code = last.child.rc
             /\ last.written = (last.stdout_before \o last.child.out)
                               \o (last.stderr_before \o last.child.err)
             /\ runs = 1 => last.written = last.child.out \o last.child.err
    /\ Ended => ~ENABLED Next

\* a second run fails after a first run that printed something
C2_Witness ==
    /\ impl = "clipy_hooks" /\ ToolRan /\ last.child.rc # 0
    /\ runs = 2 /\ last.stdout_before # <<>> /\ last.child.err # <<>>

\* C3 as the specification states it: every run ends with exit code 0 or 1.
C3_ExitCodeZeroOrOne == Ended => exit_code \in {0, 1}

\* C3, amended: a run ends with exit code 0 or 1, except that run_command
\* ends it with the wrapped tool's own non-zero exit code, and that
\* clipy_hooks ends it with 2 when argparse rejects the command line (a shim
\* option without its value).
C3_ExitCodes ==
    Ended =>
        \/ exit_code \in {0, 1}
        \/ ToolRan /\ last.child.rc # 0 /\ exit_code = last.child.rc
        \/ /\ impl = "clipy_hooks" /\ last.op = "__init__" /\ exit_code = 2
           /\ ParseKnownArgs(Tail(argv)).error

\* the tool exits 2 and so does the run
C3_Witness == Ended /\ ToolRan /\ last.child.rc = 2 /\ exit_code = 2

\* what C8 calls resolvable: the name is on the search path when no install
\* directory is set, and otherwise <install dir>/<name> is a regular file
Resolvable ==
    IF install_path = <<>> THEN onPath
    ELSE KindOf(JoinPath(install_path, command), command, toolInDir) = "file"

\* C8: check_installed returns, writing nothing, exactly when the executable
\* is resolvable; otherwise it writes a diagnostic naming the command and the
\* place looked at, and the process ends with exit code 1.
C8_CheckInstalled ==
    last.op = "check_installed" =>
        /\ Resolvable <=> (pc = "ready" /\ last.written = <<>>)
        /\ ~Resolvable =>
              /\ pc = "exited" /\ exit_code = 1
              /\ Contains(last.written, command)
              /\ IF install_path = <<>>
                 THEN \E w \in {<<"and on your PATH">>, <<" and on your PATH">>} :
                         Contains(last.written, w)
                 ELSE Contains(last.written, install_path)

\* C9: clipy_hooks' run_command returns true exactly when the tool exited with
\* code 0, and then nothing was written to the error stream and return_code
\* is 0.
C9_TrueIffZero ==
    (impl = "clipy_hooks" /\ last.op = "run_command") =>
        /\ last.result = "True" <=> (last.started /\ last.child.rc = 0)
        /\ last.result = "True" => (last.written = <<>> /\ return_code = 0)

\* run_command returned true although the tool printed to stdout and stderr
C9_Witness ==
    /\ impl = "clipy_hooks" /\ last.op = "run_command" /\ last.result = "True"
    /\ last.child.out # <<>> /\ last.child.err # <<>>

(***************************************************************************)
(* FormatterCmd: lines, and difflib's unified diff.  Positions are         *)
(* Python's: a[i:j] is the lines i+1 .. j of a.                            *)
(***************************************************************************)
\* bytes.split(b"\x0a")
RECURSIVE SplitLines(_)
SplitLines(text) ==
    IF LF \notin Range(text) THEN <<text>>
    ELSE LET k == IndexOf(text, LF)
         IN  <<SubSeq(text, 1, k - 1)>> \o SplitLines(SubSeq(text, k + 1, Len(text)))

\* sep.join(lines)
RECURSIVE JoinLines(_, _)
JoinLines(lines, sep) ==
    IF lines = <<>> THEN <<>>
    ELSE IF Len(lines) = 1 THEN lines[1]
    ELSE lines[1] \o sep \o JoinLines(Tail(lines), sep)

Slice(a, i, j) == SubSeq(a, i + 1, j)

Max(x, y) == IF x >= y THEN x ELSE y
Min(x, y) == IF x <= y THEN x ELSE y

\* str(n) for n >= 0
RECURSIVE Decimal(_)
Decimal(n) ==
    LET digit == <<"0", "1", "2", "3", "4", "5", "6", "7", "8", "9">>
    IN  IF n < 10 THEN <<digit[n + 1]>> ELSE Decimal(n \div 10) \o <<digit[(n % 10) + 1]>>

\* SequenceMatcher.find_longest_match: the longest block a[i:i+k] = b[j:j+k]
\* within a[alo:ahi] and b[blo:bhi]; of the longest, the first in a, and of
\* those the first in b; k = 0 when no line matches
CommonBlocks(a, b, alo, ahi, blo, bhi) ==
    {m \in (alo..(ahi - 1)) \X (blo..(bhi - 1)) \X (1..(ahi - alo)) :
        /\ m[1] + m[3] <= ahi
        /\ m[2] + m[3] <= bhi
        /\ Slice(a, m[1], m[1] + m[3]) = Slice(b, m[2], m[2] + m[3])}

BestBlock(blocks, none) ==
    IF blocks = {} THEN none
    ELSE CHOOSE m \in blocks :
             \A o \in blocks :
                 \/ m[3] > o[3]
                 \/ m[3] = o[3] /\ m[1] < o[1]
                 \/ m[3] = o[3] /\ m[1] = o[1] /\ m[2] <= o[2]

FindLongestMatch(a, b, alo, ahi, blo, bhi) ==
    BestBlock(CommonBlocks(a, b, alo, ahi, blo, bhi), <<alo, blo, 0>>)

\* SequenceMatcher.get_matching_blocks, without its closing (len(a), len(b), 0)
RECURSIVE MatchingBlocks(_, _, _, _, _, _)
\* the blocks before the match m, m, and the blocks after it
AroundMatch(a, b, alo, ahi, blo, bhi, m) ==
    IF m[3] = 0 THEN <<>>
    ELSE MatchingBlocks(a, b, alo, m[1], blo, m[2])
         \o <<m>>
         \o MatchingBlocks(a, b, m[1] + m[3], ahi, m[2] + m[3], bhi)

MatchingBlocks(a, b, alo, ahi, blo, bhi) ==
    IF alo >= ahi \/ blo >= bhi THEN <<>>
    ELSE AroundMatch(a, b, alo, ahi, blo, bhi,
                     FindLongestMatch(a, b, alo, ahi, blo, bhi))

\* SequenceMatcher.get_opcodes: the loop over the matching blocks, from (i, j)
RECURSIVE OpcodesFrom(_, _, _)
OpcodesFrom(blocks, i, j) ==
    IF blocks = <<>> THEN <<>>
    ELSE LET m == Head(blocks)
             tag == IF i < m[1] /\ j < m[2] THEN "replace"
                    ELSE IF i < m[1] THEN "delete"
                    ELSE IF j < m[2] THEN "insert"
                    ELSE ""
         IN  (IF tag # ""
              THEN <<[tag |-> tag, i1 |-> i, i2 |-> m[1], j1 |-> j, j2 |-> m[2]]>>
              ELSE <<>>)
             \o (IF m[3] > 0
                 THEN <<[tag |-> "equal", i1 |-> m[1], i2 |-> m[1] + m[3],
                         j1 |-> m[2], j2 |-> m[2] + m[3]]>>
                 ELSE <<>>)
             \o OpcodesFrom(Tail(blocks), m[1] + m[3], m[2] + m[3])

Opcodes(a, b) ==
    OpcodesFrom(MatchingBlocks(a, b, 0, Len(a), 0, Len(b)) \o <<<<Len(a), Len(b), 0>>>>,
                0, 0)

\* the lines of context around a change
ContextLines == 3

\* get_grouped_opcodes: "if not codes"
OrOneEqual(codes) ==
    IF codes = <<>>
    THEN <<[tag |-> "equal", i1 |-> 0, i2 |-> 1, j1 |-> 0, j2 |-> 1]>>
    ELSE codes

\* get_grouped_opcodes: a leading equal opcode keeps its last lines
TrimFirst(codes) ==
    IF codes[1].tag = "equal"
    THEN [codes EXCEPT ![1].i1 = Max(@, codes[1].i2 - ContextLines),
                       ![1].j1 = Max(@, codes[1].j2 - ContextLines)]
    ELSE codes

\* get_grouped_opcodes: a trailing equal opcode keeps its first lines
TrimLast(codes) ==
    IF codes[Len(codes)].tag = "equal"
    THEN [codes EXCEPT ![Len(codes)].i2 = Min(@, codes[Len(codes)].i1 + ContextLines),
                       ![Len(codes)].j2 = Min(@, codes[Len(codes)].j1 + ContextLines)]
    ELSE codes

TrimmedOpcodes(a, b) == TrimLast(TrimFirst(OrOneEqual(Opcodes(a, b))))

\* get_grouped_opcodes: the loop that cuts the opcodes into groups
RECURSIVE GroupsFrom(_, _)
GroupsFrom(codes, group) ==
    LET n == ContextLines
    IN  IF codes = <<>>
        THEN IF group # <<>> /\ ~(Len(group) = 1 /\ group[1].tag = "equal")
             THEN <<group>> ELSE <<>>
        ELSE LET c == Head(codes)
             IN  IF c.tag = "equal" /\ c.i2 - c.i1 > n + n
                 THEN <<Append(group, [c EXCEPT !.i2 = Min(c.i2, c.i1 + n),
                                                !.j2 = Min(c.j2, c.j1 + n)])>>
                      \o GroupsFrom(Tail(codes),
                                    <<[c EXCEPT !.i1 = Max(c.i1, c.i2 - n),
                                                !.j1 = Max(c.j1, c.j2 - n)]>>)
                 ELSE GroupsFrom(Tail(codes), Append(group, c))

GroupedOpcodes(a, b) == GroupsFrom(TrimmedOpcodes(a, b), <<>>)

\* _format_range_unified
FormatRangeUnified(start, stop) ==
    LET length == stop - start
    IN  IF length = 1 THEN Decimal(start + 1)
        ELSE Decimal(IF length = 0 THEN start ELSE start + 1) \o <<",">> \o Decimal(length)

Marked(mark, lines) == [k \in DOMAIN lines |-> <<mark>> \o lines[k]]

RECURSIVE OpcodeLines(_, _, _)
OpcodeLines(a, b, group) ==
    IF group = <<>> THEN <<>>
    ELSE LET c == Head(group)
         IN  (IF c.tag = "equal" THEN Marked(" ", Slice(a, c.i1, c.i2))
              ELSE (IF c.tag \in {"replace", "delete"}
                    THEN Marked("-", Slice(a, c.i1, c.i2)) ELSE <<>>)
                   \o (IF c.tag \in {"replace", "insert"}
                       THEN Marked("+", Slice(b, c.j1, c.j2)) ELSE <<>>))
             \o OpcodeLines(a, b, Tail(group))

RECURSIVE HunkLines(_, _, _)
HunkLines(a, b, groups) ==
    IF groups = <<>> THEN <<>>
    ELSE LET g == Head(groups)
         IN  <<(<<"@@ -">> \o FormatRangeUnified(g[1].i1, g[Len(g)].i2) \o <<" +">>
                \o FormatRangeUnified(g[1].j1, g[Len(g)].j2) \o <<" @@", LF>>)>>
             \o OpcodeLines(a, b, g)
             \o HunkLines(a, b, Tail(groups))

\* difflib.diff_bytes(difflib.unified_diff, actual, expected,
\*                    fromfile=b"original", tofile=b"formatted")
\* the two lines naming the files go before the first hunk
WithFileLines(hunks) ==
    IF hunks = <<>> THEN <<>>
    ELSE << <<"--- ", "original", LF>>, <<"+++ ", "formatted", LF>> >> \o hunks

UnifiedDiff(a, b) == WithFileLines(HunkLines(a, b, GroupedOpcodes(a, b)))

(***************************************************************************)
(* FormatterCmd.compare_to_formatted.                                      *)
(***************************************************************************)
FileBytes == {"a", LF}

Contents == SeqsUpTo(FileBytes, MaxBytes)

\* get_file_lines, for a file that can be read
GetFileLines(content) == SplitLines(content)

\* get_formatted_lines, once the tool has run without an error
GetFormattedLines(out) == IF out = <<>> THEN <<>> ELSE SplitLines(out)

\* what the formatter does to the file f with the bytes content: it prints the
\* formatted bytes, or, editing in place, prints nothing and rewrites the file;
\* or it fails, by its exit code or by printing to stderr
FormatterResults(inPlace, content) ==
    {[rc |-> 0, out |-> IF inPlace THEN <<>> ELSE c, err |-> <<>>,
      rewritten |-> IF inPlace THEN c ELSE content] : c \in Contents}
    \cup {[rc |-> 1, out |-> <<>>, err |-> <<>>, rewritten |-> content],
          [rc |-> 0, out |-> <<"o">>, err |-> <<"e">>, rewritten |-> content]}

ToolError(tool) == tool.err # <<>> \/ tool.rc # 0

\* the lines compare_to_formatted takes as expected
ExpectedLines(tool, inPlace) ==
    IF inPlace THEN GetFileLines(tool.rewritten) ELSE GetFormattedLines(tool.out)

\* 20 * b"="
RuleLength == 20

\* header + b"\n".join(diff) + b"\n"
DiffBlock(f, diff) ==
    f \o <<LF>> \o [k \in 1..RuleLength |-> "="] \o <<LF>>
    \o JoinLines(diff, <<LF>>) \o <<LF>>

\* a report that replaces the buffer
ReportReplacing(o, block) == [o EXCEPT !.stderr = block, !.return_code = 1]

\* self.stderr += ...; self.returncode = 1
Report(o, block) == [o EXCEPT !.stderr = @ \o block, !.return_code = 1]

\* if len(diff) > 0: ...
ReportDiff(o, f, diff) == IF diff # <<>> THEN Report(o, DiffBlock(f, diff)) ELSE o

FileNotFoundText(cmd, f) ==
    ErrorText(cmd, <<"File ">> \o f \o <<" not found">>, <<"Check your path to the file.">>)

\* how an f-string shows a list of strings
ListRepr(ss) ==
    <<"[">> \o JoinLines([k \in DOMAIN ss |-> <<"'">> \o ss[k] \o <<"'">>], <<", ">>)
    \o <<"]">>

UnexpectedText(cmd, f, line, tool) ==
    ErrorText(cmd,
              <<"Unexpected Stderr/return code received ", "when analyzing ">> \o f
              \o <<".", LF, "Args: ">> \o ListRepr(line),
              tool.out \o tool.err)

\* compare_to_formatted(f): content is what the file holds, tool what the
\* formatter does once started
CompareOutcome(o, f, content, tool, inPlace, env) ==
    LET kind == KindOf(f, env.cmd, env.inDir)
        line == PycliCommandLine(o.install_path, env.cmd, o.args \o <<f>>)
        started == Startable(line[1], env.cmd, env.inDir, env.found)
        tried == [o EXCEPT !.spawned = Append(@, [line |-> line, started |-> started])]
    IN  IF kind = "none" THEN RaiseError(o, FileNotFoundText(env.cmd, f))
        ELSE IF kind = "dir" THEN Uncaught(o)
        ELSE IF ~started THEN Uncaught(tried)
        ELSE IF ToolError(tool)
        THEN RaiseError(tried, UnexpectedText(env.cmd, f, line, tool))
        ELSE ReportDiff(tried, f, UnifiedDiff(GetFileLines(content),
                                              ExpectedLines(tool, inPlace)))

\* a hook's subclass sets self.edit_in_place before it compares any file
SetEditInPlace ==
    /\ pc = "ready"
    /\ compared = <<>>
    /\ ~edit_in_place
    /\ edit_in_place' = TRUE
    /\ last' = [op |-> "edit_in_place"]
    /\ UNCHANGED <<impl, argv, command, toolInDir, onPath, args, paths, install_path,
                   stdout, stderr, return_code, pc, exit_code, errstream, spawns,
                   runs, fileContent, compared>>

\* the hook's loop "for filename in self.files: compare_to_formatted(filename)",
\* one file per step
Compared(f, content, tool, o, ran) ==
    /\ Becomes(o)
    /\ fileContent' = IF ran THEN [fileContent EXCEPT ![f] = tool.rewritten]
                      ELSE fileContent
    /\ compared' = IF o.end = "returned"
                   THEN Append(compared,
                               [file |-> f, actual |-> GetFileLines(content),
                                expected |-> ExpectedLines(tool, edit_in_place)])
                   ELSE compared
    /\ last' = [op |-> "compare_to_formatted", file |-> f, content |-> content,
                tool |-> tool, ran |-> ran, written |-> o.text,
                stderr_before |-> stderr, return_code_before |-> return_code]

Ran(o) == o.spawned # <<>> /\ o.spawned[1].started

CompareFile(f, content) ==
    \E tool \in FormatterResults(edit_in_place, content) :
        Compared(f, content, tool,
                 CompareOutcome(Self, f, content, tool, edit_in_place,
                                Env(NoProbe, NoGit)),
                 Ran(CompareOutcome(Self, f, content, tool, edit_in_place,
                                    Env(NoProbe, NoGit))))

CompareToFormatted ==
    /\ pc = "ready"
    /\ Len(compared) < Len(paths)
    /\ CompareFile(paths[Len(compared) + 1], fileContent[paths[Len(compared) + 1]])
    /\ UNCHANGED <<impl, argv, command, toolInDir, onPath, runs, edit_in_place>>

\* the command lines of a formatter hook: one file, two files after an option
\* for the tool, the same file twice
FormatterLists ==
    { <<HookName, File1>>, <<HookName, <<"--a-flag">>, File1, File2>>,
      <<HookName, File2, File2>> }

InitFormatter ==
    /\ InitWith([i \in Impls |-> FormatterLists])
    /\ impl = "pre_commit_pycli"
    /\ onPath
    /\ toolInDir = "file"
    /\ fileContent \in [{File1, File2} \cap Range(argv) -> Contents]

NextFormatter == Construct \/ SetEditInPlace \/ CompareToFormatted

\* a formatter hook of pre_commit_pycli: construction, then every file compared
SpecFormatter == InitFormatter /\ [][NextFormatter]_vars

\* the blocks C4 expects in the buffer: for each call whose expected lines
\* differ from the original lines, the file name, a line of 20 "=", the
\* unified diff, each closed by a line feed
RECURSIVE ExpectedReport(_)
ExpectedReport(calls) ==
    IF calls = <<>> THEN <<>>
    ELSE LET c == Head(calls)
             rule == <<"=", "=", "=", "=", "=", "=", "=", "=", "=", "=",
                       "=", "=", "=", "=", "=", "=", "=", "=", "=", "=">>
         IN  (IF c.actual = c.expected THEN <<>>
              ELSE c.file \o <<LF>> \o rule \o <<LF>>
                   \o JoinLines(UnifiedDiff(c.actual, c.expected), <<LF>>) \o <<LF>>)
             \o ExpectedReport(Tail(calls))

Differing(c) == c.actual # c.expected

\* C4: after compare_to_formatted was called on a sequence of files without a
\* tool error, returncode is 1 exactly when some file's expected lines differ
\* from its original lines and 0 otherwise; the stderr buffer is one block per
\* differing file, in the order of processing, and nothing for an identical
\* file; a differing file's diff is not empty and does not stop the next
\* call; returncode does not go back from 1 to 0.
C4_AccumulatedReport ==
    /\ pc \in {"start", "ready"} =>
          /\ return_code = (IF \E k \in DOMAIN compared : Differing(compared[k])
                            THEN 1 ELSE 0)
          /\ stderr = ExpectedReport(compared)
          /\ \A k \in DOMAIN compared :
                Differing(compared[k])
                    <=> UnifiedDiff(compared[k].actual, compared[k].expected) # <<>>
    /\ last.op = "compare_to_formatted" =>
          /\ (last.ran /\ ~ToolError(last.tool)) => pc = "ready"
          /\ last.return_code_before = 1 => return_code = 1

\* two files compared: the first differs, the second does not
C4_Witness ==
    /\ pc = "ready" /\ Len(compared) = 2
    /\ Differing(compared[1]) /\ ~Differing(compared[2])
    /\ compared[1].file # compared[2].file
    /\ return_code = 1

\* C5: when the formatter, not editing in place, prints exactly the bytes the
\* file holds, with empty stderr and exit code 0, compare_to_formatted reports
\* no diff: the stderr buffer and returncode are as they were.
C5_RoundTrip ==
    (/\ last.op = "compare_to_formatted" /\ last.ran /\ ~edit_in_place
     /\ ~ToolError(last.tool) /\ last.tool.out = last.content)
        => /\ stderr = last.stderr_before
           /\ return_code = last.return_code_before

(***************************************************************************)
(* The version assertion on its own.                                       *)
(***************************************************************************)
VersionBytes == {"1", "0", "."}

Version100 == <<"1", ".", "0", ".", "0">>
Version101 == <<"1", ".", "0", ".", "1">>

VersionStrings == SeqsUpTo(VersionBytes, MaxVerLen) \cup {Version100, Version101}

\* _assert_version(actual_ver, expected_ver) / assert_version(...)
AssertVersionCall ==
    /\ pc = "ready"
    /\ last.op = "__init__"
    /\ \E actual_ver \in VersionStrings, expected_ver \in VersionStrings :
          LET o == AssertVersion(impl, Self, command, actual_ver, expected_ver)
          IN  /\ Becomes(o)
              /\ last' = [op |-> "assert_version", actual |-> actual_ver,
                          expected |-> expected_ver, written |-> o.text]
    /\ UNCHANGED <<impl, argv, command, toolInDir, onPath, runs, edit_in_place,
                   fileContent, compared>>

InitVersion ==
    /\ InitWith([i \in Impls |-> {<<HookName>>, <<HookName, File1>>}])
    /\ command = ToolName
    /\ onPath
    /\ toolInDir = "file"
    /\ fileContent = <<>>

NextVersion == Construct \/ AssertVersionCall

\* the version assertion called on an object built without a version constraint
SpecVersion == InitVersion /\ [][NextVersion]_vars

\* C6: the version assertion passes, writing nothing, exactly when the expected
\* string occurs in the actual one (clipy_hooks) or is a prefix of it
\* (pre_commit_pycli), so always when the two are equal; when it does not pass
\* it writes a diagnostic holding both versions and the process ends with exit
\* code 1.
C6_VersionPolicy ==
    last.op = "assert_version" =>
        LET a == last.actual
            e == last.expected
            failed == pc = "exited" /\ exit_code = 1
            accepted ==
                IF impl = "clipy_hooks"
                THEN \E i \in 0..Len(a) : i + Len(e) <= Len(a)
                                          /\ \A k \in 1..Len(e) : a[i + k] = e[k]
                ELSE Len(e) <= Len(a) /\ \A k \in 1..Len(e) : a[k] = e[k]
        IN  /\ accepted <=> ~failed
            /\ a = e => ~failed
            /\ ~failed => last.written = <<>>
            /\ failed => /\ Contains(last.written, a)
                         /\ Contains(last.written, e)
                         /\ Contains(last.written, command)

\* pre_commit_pycli turns 1.0.0 down when 1.0.1 is expected
C6_Witness ==
    /\ last.op = "assert_version" /\ impl = "pre_commit_pycli"
    /\ last.actual = Version100 /\ last.expected = Version101
    /\ pc = "exited" /\ exit_code = 1

(***************************************************************************)
(* The two spellings of a shim option.                                     *)
(***************************************************************************)
\* the positions of a shim option written "--opt value"
SpacedOptions(i, av) ==
    {k \in 2..(Len(av) - 1) : /\ av[k] \in {<<InstallFlag(i)>>, <<"--version">>}
                              /\ ~IsShimValue(i, av, k)
                              /\ ~StartsWithDash(av[k + 1])}

\* the command line with the option at k written "--opt=value"
Respelled(av, k) ==
    SubSeq(av, 1, k - 1) \o <<av[k] \o <<"=">> \o av[k + 1]>>
    \o SubSeq(av, k + 2, Len(av))

\* what a constructor leaves to its caller
Parse(o) ==
    [install_path |-> o.install_path, args |-> o.args, paths |-> o.paths,
     checked |-> o.checked, expected |-> o.expected, end |-> o.end]

\* the object the variables hold is the one the constructor call o built
Holds(o) ==
    /\ args = o.args
    /\ paths = o.paths
    /\ install_path = o.install_path
    /\ stderr = o.stderr
    /\ pc = (IF o.end = "returned" THEN "ready" ELSE o.end)

Respelt(k, one, other) ==
    /\ Holds(one)
    /\ last' = [op |-> "respelled", at |-> k, value |-> argv[k + 1],
                one |-> Parse(one), other |-> Parse(other)]

\* a second object, constructed in the same environment from the command line
\* with one shim option written the other way
ConstructRespelled ==
    /\ last.op = "__init__"
    /\ \E k \in SpacedOptions(impl, argv), git \in GitResults :
          Respelt(k, ParseArgs(impl, argv, Env(last.probe, git)),
                  ParseArgs(impl, Respelled(argv, k), Env(last.probe, git)))
    /\ UNCHANGED <<impl, argv, command, toolInDir, onPath, args, paths, install_path,
                   stdout, stderr, return_code, pc, exit_code, errstream, spawns,
                   runs, edit_in_place, fileContent, compared>>

NextSpelling == Construct \/ ConstructRespelled

\* the constructor on a command line and on its respelling
SpecSpelling == InitParse /\ [][NextSpelling]_vars

\* C11: writing a shim option "--opt=value" instead of "--opt value" changes
\* nothing: the constructor ends the same way, hands the same expected version
\* to the version assertion and, when it returns, leaves the same install
\* directory, the same arguments for the tool and the same paths; the install
\* directory is then not empty, and pre_commit_pycli stores it resolved.
C11_SpellingsEquivalent ==
    last.op = "respelled" =>
        /\ last.other.end = last.one.end
        /\ last.other.checked = last.one.checked
        /\ last.other.expected = last.one.expected
        /\ last.one.end = "returned" =>
              /\ last.other.install_path = last.one.install_path
              /\ last.other.args = last.one.args
              /\ last.other.paths = last.one.paths
              /\ argv[last.at] = <<InstallFlag(impl)>> =>
                    /\ last.other.install_path # <<>>
                    /\ impl = "pre_commit_pycli" =>
                          last.other.install_path = Resolve(last.value)

(***************************************************************************)
(* Resolving the executable before starting it (Spec).                     *)
(***************************************************************************)
\* the constructor tried to start the tool for its --version probe
Probed == last.op = "__init__" /\ spawns # <<>>

\* check_installed, asked in the state the run is in, would not find the tool
Absent == ~Installed(impl, [install_path |-> install_path], Env(NoProbe, NoGit))

\* C12: the tool is never started, not even for the --version probe, unless
\* check_installed has found it: no attempt to start it fails, and a run whose
\* tool is absent ends with the "not found" diagnostic and exit code 1.
C12_ResolvedBeforeSpawned ==
    /\ \A k \in DOMAIN spawns : spawns[k].started
    /\ (Absent /\ (Probed \/ last.op = "run_command")) =>
          /\ pc = "exited"
          /\ exit_code = 1
          /\ last.written = NotFoundText(impl, command, install_path)

\* the program of a command line: what follows the interpreter, if one is used
ProgramOf(line) == IF line[1] = <<"python">> THEN line[2] ELSE line[1]

\* C13: the file that is started is the file check_installed tests: the join
\* of the install directory and the command's name, or the bare name, looked
\* up on the search path, when no install directory is set.
C13_ExecutedIsChecked ==
    \A k \in DOMAIN spawns :
        IF install_path = <<>> THEN ProgramOf(spawns[k].line) = command
        ELSE Resolve(ProgramOf(spawns[k].line)) = Resolve(JoinPath(install_path, command))

====
